---- MODULE Spec2Model ----
(***************************************************************************)
(* EnvironmentParameterManager (mlagents/trainers/                         *)
(* environment_parameter_manager.py) as a state machine.                   *)
(*                                                                         *)
(* Floats are fixed-point integers in units of 1/Scale.  Every value the   *)
(* model computes is exact: an update_lessons call whose smoothing update  *)
(* would need more precision than Scale offers is not taken (the guard     *)
(* "exact" of UpdateLessons).  NaN is a reserved value outside the range.  *)
(* None for a persisted lesson number is NoneLesson; None for a lesson's   *)
(* completion_criteria is the record NoCriteria.                           *)
(***************************************************************************)
EXTENDS Integers, Sequences, FiniteSets, TLC

VARIABLES
    dict_settings,      \* self._dict_settings: ordered parameters, their lessons
    seeds,              \* lesson.sampler.seed, per parameter and lesson
    lesson_num,         \* GlobalTrainingStatus LESSON_NUM, per parameter
    smoothing_values,   \* self._smoothing_values, per parameter
    op,                 \* the last operation called
    arg,                \* its arguments
    pre,                \* lesson_num, smoothing_values and seeds before it
    ret                 \* what it returned or raised

vars == <<dict_settings, seeds, lesson_num, smoothing_values, op, arg, pre, ret>>

------------------------------------------------------------------------------
(* Bounds of the model *)

MaxBuf == 2             \* longest reward buffer passed to update_lessons
MaxSteps == 2           \* largest trainer step count passed to update_lessons
SmoothingDepth == 3     \* Scale = 5 * 4^SmoothingDepth
MaxRunSeed == 1         \* run seeds are drawn from -MaxRunSeed-1 .. MaxRunSeed

------------------------------------------------------------------------------
(* Fixed-point floats *)

Scale == 5 * (4 ^ SmoothingDepth)
One == Scale
Half == Scale \div 2
ThreeQuarters == (3 * Scale) \div 4
NineTenths == (9 * Scale) \div 10

NaN == -1000000

\* no value taken for not-a-number
IsNaNNever(x) == FALSE

\* line 133: math.isnan
IsNaN(x) == x = NaN

NoneLesson == -1
UnassignedSeed == -1

------------------------------------------------------------------------------
(* Settings *)

Behaviors == {"b1", "b2"}

NoCriteria ==
    [behavior |-> "", measure |-> "None", threshold |-> 0,
     min_lesson_length |-> 0, signal_smoothing |-> FALSE, require_reset |-> FALSE]

Criteria(b, m, t, n, s, r) ==
    [behavior |-> b, measure |-> m, threshold |-> t,
     min_lesson_length |-> n, signal_smoothing |-> s, require_reset |-> r]

Lesson(c) == [completion_criteria |-> c]

Parameter(lessons) == [lessons |-> lessons]

\* a curriculum whose final lessons have no completion criteria
SettingsA ==
    << Parameter(<< Lesson(Criteria("b1", "REWARD", Half, 1, TRUE, FALSE)),
                    Lesson(Criteria("b1", "REWARD", NineTenths, 2, TRUE, TRUE)),
                    Lesson(NoCriteria) >>),
       Parameter(<< Lesson(Criteria("b2", "PROGRESS", Half, 1, FALSE, TRUE)),
                    Lesson(NoCriteria) >>) >>

\* final lessons with completion criteria; both parameters watch behaviour b1
SettingsB ==
    << Parameter(<< Lesson(Criteria("b1", "PROGRESS", Half, 2, FALSE, FALSE)),
                    Lesson(Criteria("b1", "REWARD", Half, 0, FALSE, TRUE)) >>),
       Parameter(<< Lesson(Criteria("b1", "PROGRESS", Half, 1, FALSE, TRUE)) >>) >>

\* a parameter with a single lesson and no criteria, and a three-lesson one
SettingsC ==
    << Parameter(<< Lesson(NoCriteria) >>),
       Parameter(<< Lesson(Criteria("b2", "REWARD", ThreeQuarters, 1, TRUE, FALSE)),
                    Lesson(Criteria("b2", "PROGRESS", Half, 0, FALSE, FALSE)),
                    Lesson(NoCriteria) >>) >>

\* a lesson without criteria in the middle of a curriculum; a parameter that
\* requires a reset comes before one that does not
SettingsD ==
    << Parameter(<< Lesson(Criteria("b1", "PROGRESS", Half, 1, FALSE, TRUE)),
                    Lesson(NoCriteria),
                    Lesson(Criteria("b1", "REWARD", Half, 1, FALSE, FALSE)) >>),
       Parameter(<< Lesson(Criteria("b2", "REWARD", Half, 1, FALSE, FALSE)),
                    Lesson(NoCriteria) >>) >>

\* a single lesson with a smoothed REWARD criterion and min_lesson_length 0,
\* ahead of a curriculum that ends in a lesson without criteria
SettingsE ==
    << Parameter(<< Lesson(Criteria("b1", "REWARD", Half, 0, TRUE, FALSE)) >>),
       Parameter(<< Lesson(Criteria("b2", "PROGRESS", Half, 1, FALSE, FALSE)),
                    Lesson(NoCriteria) >>) >>

SettingsChoices == {SettingsA, SettingsB, SettingsC, SettingsD, SettingsE}

Params == DOMAIN dict_settings

NumLessons(p) == Len(dict_settings[p].lessons)

\* every lesson taken to have completion criteria
HasCriteriaAlways(c) == TRUE

\* lines 50 and 89: completion_criteria is not None
HasCriteria(c) == c # NoCriteria

------------------------------------------------------------------------------
(* Python list indexing: lessons[n] with n counted from 0, negative n from  *)
(* the end, IndexError outside -len .. len-1                                *)

InRange(lessons, n) == n >= 0 - Len(lessons) /\ n < Len(lessons)

LessonAt(lessons, n) == IF n >= 0 THEN lessons[n + 1] ELSE lessons[Len(lessons) + n + 1]

------------------------------------------------------------------------------
(* __init__ and _set_sampler_seeds *)

\* a construction that keeps the persisted lesson whatever restore says
InitialLessonKept(initial_lesson, restore) ==
    IF initial_lesson = NoneLesson THEN 0 ELSE initial_lesson

\* lines 25-31: the lesson number the store holds after construction
InitialLesson(initial_lesson, restore) ==
    IF initial_lesson = NoneLesson \/ ~restore THEN 0 ELSE initial_lesson

\* lines 28-31: whether construction calls set_parameter_state for the parameter
WritesLesson(initial_lesson, restore) == initial_lesson = NoneLesson \/ ~restore

\* every unassigned sampler gets the run seed itself
AssignedSeedNoOffset(seed, offset) == seed

\* line 43
AssignedSeed(seed, offset) == seed + offset

\* lines 40-44 from lesson l of parameter p on, with the running offset
RECURSIVE SetSeedsFrom(_, _, _, _, _, _)
SetSeedsFrom(settings, sd, seed, offset, p, l) ==
    IF p > Len(settings) THEN sd
    ELSE IF l > Len(settings[p].lessons)
         THEN SetSeedsFrom(settings, sd, seed, offset, p + 1, 1)
    ELSE IF sd[p][l] = UnassignedSeed
         THEN SetSeedsFrom(settings,
                           [sd EXCEPT ![p][l] = AssignedSeed(seed, offset)],
                           seed, offset + 1, p, l + 1)
    ELSE SetSeedsFrom(settings, sd, seed, offset, p, l + 1)

\* the offset starts at 1
SetSamplerSeedsFromOne(settings, sd, seed) == SetSeedsFrom(settings, sd, seed, 1, 1, 1)

SetSamplerSeeds(settings, sd, seed) == SetSeedsFrom(settings, sd, seed, 0, 1, 1)

------------------------------------------------------------------------------
(* _need_increment *)

RECURSIVE SumSeq(_)
SumSeq(s) == IF s = << >> THEN 0 ELSE Head(s) + SumSeq(Tail(s))

HasNaN(s) == \E i \in DOMAIN s : IsNaN(s[i])

\* line 132: np.mean of a non-empty buffer; NaN as soon as one element is NaN
Mean(reward_buffer) ==
    IF HasNaN(reward_buffer) THEN NaN
    ELSE SumSeq(reward_buffer) \div Len(reward_buffer)

\* the gate applied to REWARD criteria only
GateFailsForReward(c, reward_buffer) ==
    c.measure = "REWARD" /\ Len(reward_buffer) < c.min_lesson_length

\* line 121
GateFails(c, reward_buffer) == Len(reward_buffer) < c.min_lesson_length

\* progress equal to the threshold advances
ProgressReaches(progress, threshold) == progress >= threshold

\* line 127
ProgressExceeds(progress, threshold) == progress > threshold

\* the weights of the moving average exchanged
SmoothedSwapped(smoothing, measure) == (3 * smoothing + measure) \div 4

\* line 136
Smoothed(smoothing, measure) == (smoothing + 3 * measure) \div 4

\* line 138
MeasureExceeds(measure, threshold) == measure > threshold

\* lines 129-139, the REWARD branch
RewardIncrement(c, reward_buffer, smoothing) ==
    IF Len(reward_buffer) < 1
    THEN [inc |-> FALSE, smoothing |-> smoothing]
    ELSE LET mean == Mean(reward_buffer) IN
         IF IsNaN(mean)
         THEN [inc |-> FALSE, smoothing |-> smoothing]
         ELSE LET measure == IF c.signal_smoothing
                             THEN Smoothed(smoothing, mean) ELSE mean
                  new_smoothing == IF c.signal_smoothing THEN measure ELSE smoothing
              IN  [inc |-> MeasureExceeds(measure, c.threshold),
                   smoothing |-> new_smoothing]

\* lines 114-140
NeedIncrement(c, progress, reward_buffer, smoothing) ==
    IF GateFails(c, reward_buffer)
    THEN [inc |-> FALSE, smoothing |-> smoothing]
    ELSE IF c.measure = "PROGRESS" /\ ProgressExceeds(progress, c.threshold)
    THEN [inc |-> TRUE, smoothing |-> smoothing]
    ELSE IF c.measure = "REWARD"
    THEN RewardIncrement(c, reward_buffer, smoothing)
    ELSE [inc |-> FALSE, smoothing |-> smoothing]

\* whether lines 132 and 136 are exact in units of 1/Scale for this evaluation
Exact(c, reward_buffer, smoothing) ==
    \/ GateFails(c, reward_buffer)
    \/ c.measure # "REWARD"
    \/ Len(reward_buffer) < 1
    \/ HasNaN(reward_buffer)
    \/ /\ SumSeq(reward_buffer) % Len(reward_buffer) = 0
       /\ c.signal_smoothing => (smoothing + 3 * Mean(reward_buffer)) % 4 = 0

------------------------------------------------------------------------------
(* update_lessons *)

\* lines 95-96: float(steps) / float(max_steps), max_steps # 0
Progress(steps, max_steps) ==
    IF max_steps > 0 THEN (steps * Scale) \div max_steps
    ELSE 0 - ((steps * Scale) \div (0 - max_steps))

\* line 90
LessonGuard(lessons, n) == Len(lessons) > n

\* an advancement that skips a lesson
NextLessonNumSkips(n) == n + 2

\* line 103
NextLessonNum(n) == n + 1

\* the reset flag of the last parameter that advanced
MustResetLast(must_reset, require_reset) == require_reset

\* lines 108-110
MustReset(must_reset, require_reset) == must_reset \/ require_reset

Raise(st, error, p) == [st EXCEPT !.error = error, !.at = p]

\* a behaviour missing from a dict makes the loop go on to the next parameter
KeyErrorSkipped(st, p) == st

\* lines 95-97: a dict subscripted with a key it does not hold
KeyError(st, p) == Raise(st, "KeyError", p)

\* an advancement that starts the next lesson from smoothing 0.0
AdvanceResetsSmoothing(st, p, n, c) ==
    LET lessons == dict_settings[p].lessons
        set == [st EXCEPT !.lesson_num[p] = NextLessonNum(n),
                          !.smoothing_values[p] = 0]
    IN  IF ~InRange(lessons, n + 1)
        THEN Raise(set, "IndexError", p)
        ELSE [set EXCEPT !.updated = TRUE,
                         !.must_reset = MustReset(st.must_reset, c.require_reset)]

\* lines 101-110 for parameter p on lesson n, after line 100
Advance(st, p, n, c) ==
    LET lessons == dict_settings[p].lessons
        set == [st EXCEPT !.lesson_num[p] = NextLessonNum(n)]
    IN  IF ~InRange(lessons, n + 1)
        THEN Raise(set, "IndexError", p)                     \* line 106
        ELSE [set EXCEPT !.updated = TRUE,
                         !.must_reset = MustReset(st.must_reset, c.require_reset)]

\* the new smoothing value kept only by a parameter that advances
StoreOnAdvance(st, p, n, c, r, exact) ==
    IF r.inc
    THEN Advance([st EXCEPT !.smoothing_values[p] = r.smoothing,
                            !.exact = st.exact /\ exact], p, n, c)
    ELSE [st EXCEPT !.exact = st.exact /\ exact]

\* lines 100-110, with what _need_increment returned
Store(st, p, n, c, r, exact) ==
    IF r.inc
    THEN Advance([st EXCEPT !.smoothing_values[p] = r.smoothing,
                            !.exact = st.exact /\ exact], p, n, c)
    ELSE [st EXCEPT !.smoothing_values[p] = r.smoothing,
                    !.exact = st.exact /\ exact]

\* lines 92-110 for parameter p on lesson n with criteria c
Evaluate(st, p, n, c, a) ==
    IF c.behavior \notin DOMAIN a.trainer_steps THEN KeyError(st, p)
    ELSE IF c.behavior \notin DOMAIN a.trainer_max_steps THEN KeyError(st, p)
    ELSE IF a.trainer_max_steps[c.behavior] = 0 THEN Raise(st, "ZeroDivisionError", p)
    ELSE IF c.behavior \notin DOMAIN a.trainer_reward_buffer THEN KeyError(st, p)
    ELSE Store(st, p, n, c,
               NeedIncrement(c,
                   Progress(a.trainer_steps[c.behavior], a.trainer_max_steps[c.behavior]),
                   a.trainer_reward_buffer[c.behavior],
                   st.smoothing_values[p]),
               Exact(c, a.trainer_reward_buffer[c.behavior], st.smoothing_values[p]))

\* lines 84-110: one iteration of the loop
UpdateParam(st, p, a) ==
    LET lessons == dict_settings[p].lessons
        n == st.lesson_num[p]
    IN  IF ~InRange(lessons, n) THEN Raise(st, "IndexError", p)   \* line 87
        ELSE LET c == LessonAt(lessons, n).completion_criteria IN
             IF HasCriteria(c) /\ LessonGuard(lessons, n)
             THEN Evaluate(st, p, n, c, a)
             ELSE st

\* lines 83-111: the loop from parameter p on; an exception ends it
RECURSIVE UpdateFrom(_, _, _)
UpdateFrom(st, p, a) ==
    IF p > Len(dict_settings) \/ st.error # "none" THEN st
    ELSE UpdateFrom(UpdateParam(st, p, a), p + 1, a)

\* lines 75-111
UpdateLessonsResult(a) ==
    UpdateFrom([lesson_num |-> lesson_num, smoothing_values |-> smoothing_values,
                updated |-> FALSE, must_reset |-> FALSE,
                error |-> "none", at |-> 0, exact |-> TRUE], 1, a)

Snapshot == [constructed |-> TRUE, lesson_num |-> lesson_num,
             smoothing_values |-> smoothing_values, seeds |-> seeds]

\* the call's effect on the store and on the manager, and what it returned
Returned(r, a) ==
    /\ r.exact
    /\ lesson_num' = r.lesson_num
    /\ smoothing_values' = r.smoothing_values
    /\ op' = "update_lessons"
    /\ arg' = a
    /\ pre' = Snapshot
    /\ ret' = [error |-> r.error, at |-> r.at,
               updated |-> r.updated, must_reset |-> r.must_reset]
    /\ UNCHANGED <<dict_settings, seeds>>

UpdateLessons(a) == Returned(UpdateLessonsResult(a), a)

------------------------------------------------------------------------------
(* The read accessors *)

\* lines 59-64 from parameter p on
RECURSIVE SamplersFrom(_, _)
SamplersFrom(acc, p) ==
    IF p > Len(dict_settings) THEN acc
    ELSE IF ~InRange(dict_settings[p].lessons, lesson_num[p])
    THEN [acc EXCEPT !.error = "IndexError", !.at = p]             \* line 63
    ELSE SamplersFrom(
             [acc EXCEPT !.value = Append(acc.value,
                 [lesson |-> lesson_num[p] % Len(dict_settings[p].lessons),
                  seed |-> seeds[p][(lesson_num[p] % Len(dict_settings[p].lessons)) + 1]])],
             p + 1)

\* lines 57-65: the sampler of a parameter is named by its lesson and its seed
GetCurrentSamplersResult == SamplersFrom([error |-> "none", at |-> 0, value |-> << >>], 1)

\* lines 67-73
GetCurrentLessonNumberResult == [error |-> "none", at |-> 0, value |-> lesson_num]

\* lines 49-54 from lesson l of parameter p on
RECURSIVE MinBufferFrom(_, _, _, _)
MinBufferFrom(result, behavior_name, p, l) ==
    IF p > Len(dict_settings) THEN result
    ELSE IF l > Len(dict_settings[p].lessons)
    THEN MinBufferFrom(result, behavior_name, p + 1, 1)
    ELSE LET c == dict_settings[p].lessons[l].completion_criteria IN
         IF HasCriteria(c) /\ c.behavior = behavior_name /\ c.min_lesson_length > result
         THEN MinBufferFrom(c.min_lesson_length, behavior_name, p, l + 1)
         ELSE MinBufferFrom(result, behavior_name, p, l + 1)

\* the running maximum started at 0
GetMinimumRewardBufferSizeFromZero(behavior_name) ==
    [error |-> "none", at |-> 0, value |-> MinBufferFrom(0, behavior_name, 1, 1)]

\* lines 46-55
GetMinimumRewardBufferSizeResult(behavior_name) ==
    [error |-> "none", at |-> 0, value |-> MinBufferFrom(1, behavior_name, 1, 1)]

Read(name, a, r) ==
    /\ op' = name
    /\ arg' = a
    /\ pre' = Snapshot
    /\ ret' = r
    /\ UNCHANGED <<dict_settings, seeds, lesson_num, smoothing_values>>

GetCurrentSamplers == Read("get_current_samplers", << >>, GetCurrentSamplersResult)

GetCurrentLessonNumber ==
    Read("get_current_lesson_number", << >>, GetCurrentLessonNumberResult)

GetMinimumRewardBufferSize(behavior_name) ==
    Read("get_minimum_reward_buffer_size", behavior_name,
         GetMinimumRewardBufferSizeResult(behavior_name))

------------------------------------------------------------------------------
(* Construction *)

\* lines 17-36 over the store, the seeds and the settings given
Constructed(settings, store, sd, run_seed, restore) ==
    [lesson_num |-> [p \in DOMAIN settings |-> InitialLesson(store[p], restore)],
     smoothing_values |-> [p \in DOMAIN settings |-> 0],
     seeds |-> SetSamplerSeeds(settings, sd, run_seed),
     writes |-> {p \in DOMAIN settings : WritesLesson(store[p], restore)}]

NewManager(r, run_seed, restore) ==
    /\ lesson_num' = r.lesson_num
    /\ smoothing_values' = r.smoothing_values
    /\ seeds' = r.seeds
    /\ op' = "__init__"
    /\ arg' = [run_seed |-> run_seed, restore |-> restore]
    /\ pre' = Snapshot
    /\ ret' = [error |-> "none", at |-> 0, writes |-> r.writes]
    /\ UNCHANGED dict_settings

\* a second manager over the same settings objects and the same store
Construct(run_seed, restore) ==
    NewManager(Constructed(dict_settings, lesson_num, seeds, run_seed, restore),
               run_seed, restore)

FirstManager(r, settings, store, sd, run_seed, restore) ==
    /\ dict_settings = settings
    /\ lesson_num = r.lesson_num
    /\ smoothing_values = r.smoothing_values
    /\ seeds = r.seeds
    /\ op = "__init__"
    /\ arg = [run_seed |-> run_seed, restore |-> restore]
    /\ pre = [constructed |-> FALSE, lesson_num |-> store,
              smoothing_values |-> [p \in DOMAIN settings |-> 0], seeds |-> sd]
    /\ ret = [error |-> "none", at |-> 0, writes |-> r.writes]

\* the first manager of the process: the store holds what an earlier run left
InitWith(settings, store, sd, run_seed, restore) ==
    FirstManager(Constructed(settings, store, sd, run_seed, restore),
                 settings, store, sd, run_seed, restore)

\* the training loop makes its calls one after the other
Idle == op = "idle"

\* the training loop has used what the last call returned and goes on
Proceed ==
    /\ ~Idle
    /\ op' = "idle"
    /\ arg' = << >>
    /\ pre' = << >>
    /\ ret' = << >>
    /\ UNCHANGED <<dict_settings, seeds, lesson_num, smoothing_values>>

------------------------------------------------------------------------------
(* Inputs *)

\* the length of the longest curriculum of the settings
Longest(settings) ==
    CHOOSE n \in {Len(settings[p].lessons) : p \in DOMAIN settings} :
        \A p \in DOMAIN settings : Len(settings[p].lessons) <= n

\* what an earlier run over the same settings can have persisted: nothing, or
\* the number of one of the parameter's lessons
PersistedStores(settings) ==
    { s \in [DOMAIN settings -> NoneLesson .. Longest(settings) - 1] :
        \A p \in DOMAIN settings : s[p] < Len(settings[p].lessons) }

\* a seed drawn from S for every lesson of every parameter
SeedShape(settings, S) ==
    { sd \in [DOMAIN settings -> UNION {[1 .. n -> S] : n \in 1 .. Longest(settings)}] :
        \A p \in DOMAIN settings : Len(sd[p]) = Len(settings[p].lessons) }

RunSeeds == (0 - MaxRunSeed - 1) .. MaxRunSeed

Rewards == {0, One}

Buffers == UNION { [1 .. n -> Rewards] : n \in 0 .. MaxBuf }

StepCounts == 1 .. MaxSteps

MaxStepCounts == {2}

Args ==
    { [trainer_steps |-> s, trainer_max_steps |-> m, trainer_reward_buffer |-> r] :
        s \in [Behaviors -> StepCounts],
        m \in [Behaviors -> MaxStepCounts],
        r \in [Behaviors -> Buffers] }

\* both behaviours report the same step count and a full buffer of rewards 1
GoodArgs ==
    { [trainer_steps |-> [b \in Behaviors |-> n],
       trainer_max_steps |-> [b \in Behaviors |-> 2],
       trainer_reward_buffer |-> [b \in Behaviors |-> [i \in 1 .. MaxBuf |-> One]]] :
        n \in StepCounts }

WithoutKey(f, b) == [x \in DOMAIN f \ {b} |-> f[x]]

\* the buffers of rewards 1.0 and NaN that hold a NaN
NaNBuffers ==
    { r \in UNION { [1 .. n -> {One, NaN}] : n \in 1 .. MaxBuf } :
        \E i \in DOMAIN r : r[i] = NaN }

\* the call a with one thing wrong: a behaviour missing from one of the three
\* dicts, a zero or negative max_steps, a reward that is not a number
Faulty(a) ==
    { [a EXCEPT !.trainer_steps = WithoutKey(@, b)] : b \in Behaviors }
    \cup { [a EXCEPT !.trainer_max_steps = WithoutKey(@, b)] : b \in Behaviors }
    \cup { [a EXCEPT !.trainer_reward_buffer = WithoutKey(@, b)] : b \in Behaviors }
    \cup { [a EXCEPT !.trainer_max_steps[b] = m] : b \in Behaviors, m \in {0, -2} }
    \cup { [a EXCEPT !.trainer_reward_buffer[b] = r] : b \in Behaviors, r \in NaNBuffers }

FaultyArgs == UNION { Faulty(a) : a \in GoodArgs }

BehaviorNames == Behaviors \cup {"b3"}

------------------------------------------------------------------------------
(* The manager driven by its training loop, every sampler seed unassigned   *)

Init ==
    \E settings \in SettingsChoices :
        \E store \in PersistedStores(settings),
           sd \in SeedShape(settings, {UnassignedSeed}),
           restore \in BOOLEAN :
            InitWith(settings, store, sd, 0, restore)

DoConstruct == Idle /\ \E restore \in BOOLEAN : Construct(0, restore)

DoUpdateLessons == Idle /\ \E a \in Args \cup FaultyArgs : UpdateLessons(a)

DoGetCurrentSamplers == Idle /\ GetCurrentSamplers

DoGetCurrentLessonNumber == Idle /\ GetCurrentLessonNumber

DoGetMinimumRewardBufferSize ==
    Idle /\ \E b \in BehaviorNames : GetMinimumRewardBufferSize(b)

Next ==
    \/ DoConstruct
    \/ DoUpdateLessons
    \/ DoGetCurrentSamplers
    \/ DoGetCurrentLessonNumber
    \/ DoGetMinimumRewardBufferSize
    \/ Proceed

Spec == Init /\ [][Next]_vars

------------------------------------------------------------------------------
(* The same manager over settings with explicit and unassigned sampler      *)
(* seeds and any run seed, driven by one update_lessons input               *)

SeedChoices == {UnassignedSeed, 0, 1}

SeedSettings == SettingsChoices

SeedArgs == { a \in GoodArgs : \A b \in Behaviors : a.trainer_steps[b] = MaxSteps }

InitSeeds ==
    \E settings \in SeedSettings :
        \E store \in PersistedStores(settings),
           sd \in SeedShape(settings, SeedChoices),
           run_seed \in RunSeeds, restore \in BOOLEAN :
            InitWith(settings, store, sd, run_seed, restore)

ConstructSeeds ==
    Idle /\ \E run_seed \in RunSeeds, restore \in BOOLEAN : Construct(run_seed, restore)

UpdateLessonsSeeds == Idle /\ \E a \in SeedArgs : UpdateLessons(a)

NextSeeds ==
    \/ ConstructSeeds
    \/ UpdateLessonsSeeds
    \/ DoGetCurrentSamplers
    \/ Proceed

SpecSeeds == InitSeeds /\ [][NextSeeds]_vars

------------------------------------------------------------------------------
(* The manager under a training loop that goes on calling update_lessons,   *)
(* each time with a full buffer of rewards 1.0 and steps = max_steps for    *)
(* every behaviour                                                          *)

LiveArgs ==
    { [trainer_steps |-> [b \in Behaviors |-> 2],
       trainer_max_steps |-> [b \in Behaviors |-> 2],
       trainer_reward_buffer |-> [b \in Behaviors |-> [i \in 1 .. MaxBuf |-> One]]] }

DoUpdateLessonsLive == Idle /\ \E a \in LiveArgs : UpdateLessons(a)

NextLive ==
    \/ DoUpdateLessonsLive
    \/ Proceed

\* the loop makes its next call, and comes back from every call
SpecLive ==
    /\ Init
    /\ [][NextLive]_vars
    /\ WF_vars(DoUpdateLessonsLive)
    /\ WF_vars(Proceed)

------------------------------------------------------------------------------
(* What the last call did, read from op, arg, pre, ret and the state after it *)

Updating == op = "update_lessons"

Reading == op \in {"get_current_samplers", "get_current_lesson_number",
                   "get_minimum_reward_buffer_size"}

\* the loop of update_lessons came to parameter p
Reached(p) == ret.error = "none" \/ p <= ret.at

OnLesson(p) == pre.lesson_num[p] >= 0 /\ pre.lesson_num[p] < NumLessons(p)

OnLastLesson(p) == pre.lesson_num[p] = NumLessons(p) - 1

ActiveCriteria(p) == dict_settings[p].lessons[pre.lesson_num[p] + 1].completion_criteria

\* update_lessons called _need_increment for parameter p
Evaluated(p) ==
    /\ Updating /\ Reached(p) /\ OnLesson(p)
    /\ ActiveCriteria(p) # NoCriteria
    /\ ~(ret.at = p /\ ret.error \in {"KeyError", "ZeroDivisionError"})

StepsOf(p) == arg.trainer_steps[ActiveCriteria(p).behavior]
MaxStepsOf(p) == arg.trainer_max_steps[ActiveCriteria(p).behavior]
BufferOf(p) == arg.trainer_reward_buffer[ActiveCriteria(p).behavior]

GatePasses(p) == Len(BufferOf(p)) >= ActiveCriteria(p).min_lesson_length

Advanced(p) == lesson_num[p] = pre.lesson_num[p] + 1

\* steps / max_steps > threshold, without the division
ProgressAbove(p) ==
    IF MaxStepsOf(p) > 0
    THEN StepsOf(p) * Scale > ActiveCriteria(p).threshold * MaxStepsOf(p)
    ELSE StepsOf(p) * Scale < ActiveCriteria(p).threshold * MaxStepsOf(p)

\* the buffer is not empty and holds numbers: its mean is SumOf(p) / LenOf(p)
HasMean(p) ==
    /\ Len(BufferOf(p)) >= 1
    /\ \A i \in DOMAIN BufferOf(p) : BufferOf(p)[i] # NaN

SumOf(p) == SumSeq(BufferOf(p))
LenOf(p) == Len(BufferOf(p))

\* mean > threshold, without the division
MeanAbove(p) == SumOf(p) > ActiveCriteria(p).threshold * LenOf(p)

\* 0.25 * prior smoothing + 0.75 * mean > threshold, without the divisions
SmoothedAbove(p) ==
    LenOf(p) * pre.smoothing_values[p] + 3 * SumOf(p)
        > 4 * LenOf(p) * ActiveCriteria(p).threshold

\* the active criterion of p is met, by the rules of _need_increment
Met(p) ==
    /\ GatePasses(p)
    /\ \/ ActiveCriteria(p).measure = "PROGRESS" /\ ProgressAbove(p)
       \/ /\ ActiveCriteria(p).measure = "REWARD"
          /\ HasMean(p)
          /\ IF ActiveCriteria(p).signal_smoothing THEN SmoothedAbove(p) ELSE MeanAbove(p)

------------------------------------------------------------------------------
(* C1: in every state reachable by construction and update_lessons calls,   *)
(* each parameter's persisted lesson number is an index of its lessons:     *)
(* 0 <= lesson_num[p] < number of lessons of p.                             *)
C1_LessonIndexInRange ==
    \A p \in Params : lesson_num[p] >= 0 /\ lesson_num[p] < NumLessons(p)

(* C2: when a parameter is on its last lesson, the lesson has criteria and  *)
(* they are met, update_lessons returns normally and leaves the parameter's *)
(* lesson number as it was.                                                 *)
C2_LastLessonIsTerminal ==
    \A p \in Params :
        (Evaluated(p) /\ OnLastLesson(p) /\ Met(p))
            => (ret.error = "none" /\ lesson_num[p] = pre.lesson_num[p])

(* C3: after construction the lesson number of a parameter is changed only  *)
(* by update_lessons, by exactly +1, and only when _need_increment          *)
(* signalled advancement for that parameter.                                *)
C3_IndexChangesOnlyByAdvancement ==
    /\ Reading => lesson_num = pre.lesson_num
    /\ Updating =>
         \A p \in Params :
            /\ lesson_num[p] = pre.lesson_num[p] \/ Advanced(p)
            /\ Advanced(p) => (Evaluated(p) /\ Met(p))

C3_Witness ==
    /\ Updating
    /\ \E p, q \in Params :
         /\ Advanced(p)
         /\ Evaluated(q) /\ ~Met(q) /\ lesson_num[q] = pre.lesson_num[q]

(* C4: for an update_lessons call that returns, updated is true iff some    *)
(* parameter advanced in the call, must_reset is true iff some parameter    *)
(* that advanced had require_reset on the lesson it left; must_reset        *)
(* implies updated, and when no active criterion is met the result is       *)
(* (false, false) with every lesson number unchanged.                       *)
C4_AggregateResult ==
    (Updating /\ ret.error = "none") =>
        /\ ret.updated = (\E p \in Params : Advanced(p))
        /\ ret.must_reset =
              (\E p \in Params : Advanced(p) /\ ActiveCriteria(p).require_reset)
        /\ ret.must_reset => ret.updated
        /\ (\A p \in Params : Evaluated(p) => ~Met(p))
              => (~ret.updated /\ ~ret.must_reset /\ lesson_num = pre.lesson_num)

\* a parameter that requires a reset advances before one that does not
C4_Witness ==
    /\ Updating /\ ret.error = "none" /\ ret.updated /\ ret.must_reset
    /\ \E p, q \in Params :
         /\ p < q
         /\ Advanced(p) /\ ActiveCriteria(p).require_reset
         /\ Advanced(q) /\ ~ActiveCriteria(q).require_reset

(* C5: construction with restore and a persisted lesson number k leaves k   *)
(* and does not write the store; construction without restore, or with no   *)
(* persisted value, writes 0, whatever an earlier run persisted.            *)
C5_ConstructionRestores ==
    op = "__init__" =>
        \A p \in Params :
            IF arg.restore /\ pre.lesson_num[p] # NoneLesson
            THEN lesson_num[p] = pre.lesson_num[p] /\ p \notin ret.writes
            ELSE lesson_num[p] = 0 /\ p \in ret.writes

\* a second manager restores lesson 2, persisted before it was constructed
C5_Witness ==
    /\ op = "__init__" /\ pre.constructed /\ arg.restore
    /\ \E p \in Params : lesson_num[p] = 2 /\ pre.lesson_num[p] = 2

------------------------------------------------------------------------------
(* Sampler seeds, in the order of _set_sampler_seeds *)

Positions == { x \in Params \X (1 .. Longest(dict_settings)) : x[2] <= NumLessons(x[1]) }

Before(x, y) == x[1] < y[1] \/ (x[1] = y[1] /\ x[2] < y[2])

SeedBefore(x) == pre.seeds[x[1]][x[2]]

SeedAfter(x) == seeds[x[1]][x[2]]

\* how many lessons before x had an unassigned seed when the manager was built
Rank(x) ==
    Cardinality({ y \in Positions : Before(y, x) /\ SeedBefore(y) = UnassignedSeed })

(* C6: at construction the k-th lesson, in settings and lesson order, whose *)
(* seed is -1 gets run_seed + k (k from 0) and every other lesson keeps its *)
(* seed; the result is a function of the settings and run_seed alone.       *)
C6_SeedAssignment ==
    op = "__init__" =>
        \A x \in Positions :
            SeedAfter(x) = IF SeedBefore(x) = UnassignedSeed
                           THEN arg.run_seed + Rank(x)
                           ELSE SeedBefore(x)

\* the offset runs on from one parameter to the next, past an explicit seed
C6_Witness ==
    /\ op = "__init__"
    /\ \E x, y, z \in Positions :
         /\ x[1] < z[1] /\ Before(x, y) /\ Before(y, z)
         /\ SeedBefore(x) = UnassignedSeed
         /\ SeedBefore(y) # UnassignedSeed /\ SeedAfter(y) = SeedBefore(y)
         /\ SeedBefore(z) = UnassignedSeed /\ SeedAfter(z) = arg.run_seed + 1

(* C7 as stated: every seed the manager assigned differs from every other   *)
(* sampler seed, and a second seed assignment over the same settings leaves *)
(* every seed unchanged.                                                    *)
C7_AssignedSeedsUniqueAndFinal ==
    op = "__init__" =>
        /\ \A x, y \in Positions :
              (SeedBefore(x) = UnassignedSeed /\ x # y) => SeedAfter(x) # SeedAfter(y)
        /\ pre.constructed => seeds = pre.seeds

(* C7 as amended: the seeds assigned by one construction differ from each   *)
(* other (they may equal an explicit seed or a seed of an earlier           *)
(* construction); a seed that is not -1 is never changed again, by a        *)
(* construction or by any other call.                                       *)
C7_AssignedSeedsDistinct ==
    /\ op = "__init__" =>
         /\ \A x, y \in Positions :
               (SeedBefore(x) = UnassignedSeed /\ SeedBefore(y) = UnassignedSeed /\ x # y)
                   => SeedAfter(x) # SeedAfter(y)
         /\ \A x \in Positions :
               SeedBefore(x) # UnassignedSeed => SeedAfter(x) = SeedBefore(x)
    /\ (Updating \/ Reading) => seeds = pre.seeds

\* two seeds assigned at once, one of them equal to an explicit seed
C7_Witness ==
    /\ op = "__init__"
    /\ \E x, y, z \in Positions :
         /\ x # y
         /\ SeedBefore(x) = UnassignedSeed /\ SeedBefore(y) = UnassignedSeed
         /\ SeedBefore(z) # UnassignedSeed /\ SeedAfter(z) = SeedAfter(x)

------------------------------------------------------------------------------
(* C8: for PROGRESS and for REWARD criteria, a reward buffer shorter than   *)
(* min_lesson_length makes _need_increment return (False, prior smoothing): *)
(* update_lessons neither advances the parameter nor changes its smoothing  *)
(* value, whatever the progress, the threshold and the buffer's contents.   *)
C8_BufferGate ==
    \A p \in Params :
        (Evaluated(p) /\ ~GatePasses(p))
            => /\ lesson_num[p] = pre.lesson_num[p]
               /\ smoothing_values[p] = pre.smoothing_values[p]

\* a PROGRESS criterion whose threshold is exceeded and a REWARD criterion
\* whose mean exceeds the threshold, both held back by the gate
C8_Witness ==
    \E p, q \in Params :
        /\ Evaluated(p) /\ ~GatePasses(p)
        /\ ActiveCriteria(p).measure = "PROGRESS" /\ ProgressAbove(p)
        /\ Evaluated(q) /\ ~GatePasses(q)
        /\ ActiveCriteria(q).measure = "REWARD"
        /\ HasMean(q) /\ MeanAbove(q)

(* C9: for a PROGRESS criterion whose gate passes, the parameter advances   *)
(* iff trainer_steps / trainer_max_steps > threshold, strictly; the         *)
(* smoothing value is the prior one in both outcomes.                       *)
C9_ProgressStrict ==
    \A p \in Params :
        (Evaluated(p) /\ ActiveCriteria(p).measure = "PROGRESS" /\ GatePasses(p))
            => /\ Advanced(p) <=> ProgressAbove(p)
               /\ ~Advanced(p) => lesson_num[p] = pre.lesson_num[p]
               /\ smoothing_values[p] = pre.smoothing_values[p]

\* progress equal to the threshold does not advance
C9_Witness ==
    \E p \in Params :
        /\ Evaluated(p) /\ ActiveCriteria(p).measure = "PROGRESS" /\ GatePasses(p)
        /\ StepsOf(p) * Scale = ActiveCriteria(p).threshold * MaxStepsOf(p)
        /\ lesson_num[p] = pre.lesson_num[p]

(* C10: for a REWARD criterion whose gate passes on a buffer of mean m,     *)
(* with smoothing the measure and the stored smoothing are                  *)
(* 0.25 * prior + 0.75 * m, without it the measure is m and the smoothing   *)
(* stays; the parameter advances iff measure > threshold, strictly.  With   *)
(* threshold 0.9 and mean 1: from smoothing 0 the call stores 0.75 and does *)
(* not advance, from 0.75 it stores 0.9375 and advances.                    *)
C10_RewardSmoothing ==
    \A p \in Params :
        (Evaluated(p) /\ ActiveCriteria(p).measure = "REWARD" /\ GatePasses(p)
                      /\ HasMean(p))
            => /\ IF ActiveCriteria(p).signal_smoothing
                  THEN /\ 4 * LenOf(p) * smoothing_values[p]
                            = LenOf(p) * pre.smoothing_values[p] + 3 * SumOf(p)
                       /\ Advanced(p) <=> smoothing_values[p] > ActiveCriteria(p).threshold
                  ELSE /\ smoothing_values[p] = pre.smoothing_values[p]
                       /\ Advanced(p) <=> MeanAbove(p)
               /\ ~Advanced(p) => lesson_num[p] = pre.lesson_num[p]
               /\ (/\ ActiveCriteria(p).signal_smoothing
                   /\ 10 * ActiveCriteria(p).threshold = 9 * Scale
                   /\ SumOf(p) = LenOf(p) * Scale)
                    => /\ pre.smoothing_values[p] = 0
                          => (4 * smoothing_values[p] = 3 * Scale /\ ~Advanced(p))
                       /\ 4 * pre.smoothing_values[p] = 3 * Scale
                          => (16 * smoothing_values[p] = 15 * Scale /\ Advanced(p))

\* the second of two calls with threshold 0.9 and mean 1: 0.75 gives 0.9375
C10_Witness ==
    \E p \in Params :
        /\ Evaluated(p) /\ ActiveCriteria(p).measure = "REWARD" /\ GatePasses(p)
        /\ ActiveCriteria(p).signal_smoothing
        /\ 10 * ActiveCriteria(p).threshold = 9 * Scale
        /\ HasMean(p) /\ SumOf(p) = LenOf(p) * Scale
        /\ 4 * pre.smoothing_values[p] = 3 * Scale
        /\ 16 * smoothing_values[p] = 15 * Scale
        /\ Advanced(p)

------------------------------------------------------------------------------
(* Faulty inputs of update_lessons *)

\* the loop of update_lessons came to parameter p on a lesson with criteria
Considered(p) ==
    Updating /\ Reached(p) /\ OnLesson(p) /\ ActiveCriteria(p) # NoCriteria

\* the behaviour of p's active criteria is a key of the dict d of the call
HasKey(p, d) == ActiveCriteria(p).behavior \in DOMAIN d

HasAllKeys(p) ==
    /\ HasKey(p, arg.trainer_steps)
    /\ HasKey(p, arg.trainer_max_steps)
    /\ HasKey(p, arg.trainer_reward_buffer)

(* C11: whenever a parameter's active lesson has completion criteria and   *)
(* trainer_max_steps of its behaviour is zero or negative, update_lessons   *)
(* ends in an error instead of computing a progress value and evaluating    *)
(* the criterion with it, and the parameter's lesson is not advanced.       *)
C11_NonPositiveMaxStepsFails ==
    \A p \in Params :
        (Considered(p) /\ HasKey(p, arg.trainer_max_steps) /\ MaxStepsOf(p) <= 0)
            => /\ ret.error # "none"
               /\ ~Evaluated(p)
               /\ lesson_num[p] = pre.lesson_num[p]

\* the call gives no entry for some behaviour in some dict
SomeKeyMissing ==
    \E b \in Behaviors :
        \/ b \notin DOMAIN arg.trainer_steps
        \/ b \notin DOMAIN arg.trainer_max_steps
        \/ b \notin DOMAIN arg.trainer_reward_buffer

(* C12: if the behaviour of a parameter's active completion criteria is    *)
(* missing from trainer_steps, trainer_max_steps or trainer_reward_buffer,  *)
(* update_lessons raises at that parameter (KeyError; ZeroDivisionError     *)
(* when the division by a zero max_steps comes before the missing buffer)   *)
(* without evaluating it; a KeyError is raised for no other reason, so a    *)
(* behaviour that no active criteria names need not be in the dicts.        *)
C12_MissingBehaviourRaises ==
    /\ \A p \in Params :
          (Considered(p) /\ ~HasAllKeys(p))
              => /\ ret.at = p
                 /\ ret.error =
                      IF /\ HasKey(p, arg.trainer_steps)
                         /\ HasKey(p, arg.trainer_max_steps)
                         /\ MaxStepsOf(p) = 0
                      THEN "ZeroDivisionError" ELSE "KeyError"
                 /\ lesson_num[p] = pre.lesson_num[p]
                 /\ smoothing_values[p] = pre.smoothing_values[p]
    /\ (Updating /\ ret.error = "KeyError")
          => \E p \in Params : ret.at = p /\ Considered(p) /\ ~HasAllKeys(p)

\* the second parameter's behaviour has no reward buffer
C12_Witness ==
    /\ Updating /\ ret.error = "KeyError" /\ ret.at = 2
    /\ Considered(2)
    /\ HasKey(2, arg.trainer_steps) /\ HasKey(2, arg.trainer_max_steps)
    /\ ~HasKey(2, arg.trainer_reward_buffer)

------------------------------------------------------------------------------
(* The minimum reward buffer size of a behaviour *)

CriteriaAt(x) == dict_settings[x[1]].lessons[x[2]].completion_criteria

\* the lessons, of every parameter, whose criteria target behaviour b
Targeting(b) ==
    { x \in Positions : CriteriaAt(x) # NoCriteria /\ CriteriaAt(x).behavior = b }

MinLengths(b) == { CriteriaAt(x).min_lesson_length : x \in Targeting(b) }

MaxOf(S) == CHOOSE m \in S : \A n \in S : n <= m

Sizing == op = "get_minimum_reward_buffer_size"

(* C13 as stated: get_minimum_reward_buffer_size(b) returns 1 when no       *)
(* lesson has criteria targeting b, and otherwise the maximum               *)
(* min_lesson_length over the lessons, active or not, whose criteria        *)
(* target b.                                                                *)
C13_MinimumBufferIsMaxLength ==
    Sizing =>
        /\ ret.error = "none"
        /\ ret.value = IF Targeting(arg) = {} THEN 1 ELSE MaxOf(MinLengths(arg))

(* C13 as amended: get_minimum_reward_buffer_size(b) returns the larger of  *)
(* 1 and every min_lesson_length of a lesson, active or not, whose criteria *)
(* target b: 1 when no lesson targets b and also when every lesson that     *)
(* targets b has min_lesson_length 0.  The result is a function of the      *)
(* settings and b, not of the lesson numbers.                               *)
C13_MinimumBufferAtLeastOne ==
    Sizing =>
        /\ ret.error = "none"
        /\ ret.value = MaxOf(MinLengths(arg) \cup {1})

\* a behaviour targeted only by a lesson of min_lesson_length 0, asked for
\* after the parameter has left lesson 0
C13_Witness ==
    /\ Sizing /\ ret.value = 1
    /\ Targeting(arg) # {} /\ MaxOf(MinLengths(arg)) = 0
    /\ \E p \in Params : lesson_num[p] # 0

------------------------------------------------------------------------------
(* Smoothing values *)

\* update_lessons took the moving average of line 136 for parameter p
Smooths(p) ==
    /\ Evaluated(p)
    /\ ActiveCriteria(p).measure = "REWARD" /\ ActiveCriteria(p).signal_smoothing
    /\ GatePasses(p) /\ HasMean(p)

\* the smoothing value of p is 0.25 * the prior one + 0.75 * the mean
SmoothingStored(p) ==
    4 * LenOf(p) * smoothing_values[p] = LenOf(p) * pre.smoothing_values[p] + 3 * SumOf(p)

(* C14: every smoothing value is 0.0 after construction; the accessors      *)
(* leave them alone; update_lessons changes the smoothing value of a        *)
(* parameter only when its active lesson has a REWARD criterion with        *)
(* smoothing, the gate passes and the mean is a number, and then stores     *)
(* 0.25 * prior + 0.75 * mean whether or not the lesson advances; in every  *)
(* other case the value is the one before the call.                         *)
C14_SmoothingFrame ==
    /\ op = "__init__" => \A p \in Params : smoothing_values[p] = 0
    /\ Reading => smoothing_values = pre.smoothing_values
    /\ Updating =>
         \A p \in Params :
            IF Smooths(p) THEN SmoothingStored(p)
            ELSE smoothing_values[p] = pre.smoothing_values[p]

\* a new smoothing value stored for a parameter that stays on its lesson,
\* in a call that evaluates another parameter by its progress
C14_Witness ==
    /\ Updating /\ ret.error = "none"
    /\ \E p, q \in Params :
         /\ Smooths(p) /\ ~Advanced(p)
         /\ smoothing_values[p] # pre.smoothing_values[p]
         /\ Evaluated(q) /\ ActiveCriteria(q).measure = "PROGRESS" /\ Advanced(q)

(* C15: for a REWARD criterion whose gate passes, an empty reward buffer    *)
(* (min_lesson_length 0) or a mean that is not a number makes               *)
(* _need_increment return (False, prior smoothing): the call raises nothing *)
(* on the parameter's account and leaves its lesson number and its          *)
(* smoothing value as they were, so that the next call finds the parameter  *)
(* as the call before found it.                                             *)
C15_EmptyOrNaNBuffer ==
    \A p \in Params :
        (Evaluated(p) /\ ActiveCriteria(p).measure = "REWARD" /\ GatePasses(p)
                      /\ ~HasMean(p))
            => /\ ret.at # p
               /\ lesson_num[p] = pre.lesson_num[p]
               /\ smoothing_values[p] = pre.smoothing_values[p]

\* a buffer holding a NaN, met by a smoothing value that earlier calls built up
C15_Witness ==
    \E p \in Params :
        /\ Evaluated(p) /\ ActiveCriteria(p).measure = "REWARD" /\ GatePasses(p)
        /\ ActiveCriteria(p).signal_smoothing
        /\ HasNaN(BufferOf(p))
        /\ pre.smoothing_values[p] > 0
        /\ smoothing_values[p] = pre.smoothing_values[p]

------------------------------------------------------------------------------
(* The accessors *)

\* the accessors changed nothing
ReadOnly ==
    /\ lesson_num = pre.lesson_num
    /\ smoothing_values = pre.smoothing_values
    /\ seeds = pre.seeds

\* what get_current_samplers returned for p is the sampler of the lesson
\* that get_current_lesson_number names
CurrentSampler(p) ==
    /\ lesson_num[p] >= 0 /\ lesson_num[p] < NumLessons(p)
    /\ ret.value[p] = [lesson |-> lesson_num[p], seed |-> seeds[p][lesson_num[p] + 1]]

(* C16: get_current_samplers, get_current_lesson_number and                 *)
(* get_minimum_reward_buffer_size change no lesson number, smoothing value  *)
(* or sampler seed, and in every reachable state get_current_samplers       *)
(* returns, for each parameter, the sampler of the lesson whose number      *)
(* get_current_lesson_number gives.                                         *)
C16_AccessorsReadOnly ==
    /\ Reading => ReadOnly
    /\ op = "get_current_lesson_number" => ret.value = lesson_num
    /\ op = "get_current_samplers" =>
          /\ ret.error = "none"
          /\ \A p \in Params : CurrentSampler(p)

------------------------------------------------------------------------------
(* Lessons without completion criteria *)

\* parameter p is on a lesson that has no completion criteria
Terminal(p) ==
    /\ lesson_num[p] >= 0 /\ lesson_num[p] < NumLessons(p)
    /\ dict_settings[p].lessons[lesson_num[p] + 1].completion_criteria = NoCriteria

(* C17: once a parameter is on a lesson without completion criteria, no     *)
(* call but the construction of a new manager changes its lesson number or  *)
(* its smoothing value, and no update_lessons call, whatever its inputs,    *)
(* raises on that parameter's account (it looks up no behaviour for it).    *)
C17_NoCriteriaIsTerminal ==
    [][\A p \in DOMAIN dict_settings :
          (Terminal(p) /\ op' # "__init__")
              => /\ lesson_num'[p] = lesson_num[p]
                 /\ smoothing_values'[p] = smoothing_values[p]
                 /\ op' = "update_lessons" => ret'.at # p]_vars

\* a lesson without criteria in the middle of a curriculum, in a call that
\* lacks a behaviour and advances another parameter
C17_Witness ==
    /\ Updating /\ ret.error = "none" /\ ret.updated /\ SomeKeyMissing
    /\ \E p \in Params :
         /\ OnLesson(p) /\ ActiveCriteria(p) = NoCriteria
         /\ pre.lesson_num[p] < NumLessons(p) - 1
         /\ lesson_num[p] = pre.lesson_num[p]

------------------------------------------------------------------------------
(* Calls that raise *)

(* C18: an update_lessons call that ends in an error (KeyError,             *)
(* ZeroDivisionError, IndexError) leaves every parameter's lesson number    *)
(* and smoothing value as they were before the call, those of the           *)
(* parameters before the failing one included.                              *)
C18_FailedStepIsAtomic ==
    (Updating /\ ret.error # "none") =>
        /\ lesson_num = pre.lesson_num
        /\ smoothing_values = pre.smoothing_values

------------------------------------------------------------------------------
(* The smoothing value across an advancement *)

\* the call just made took 0.25 * (the smoothing value p had when the call
\* was made) + 0.75 * mean for p, or left p's smoothing value alone
CarriesSmoothing(p) ==
    IF Smooths(p)'
    THEN 4 * LenOf(p)' * smoothing_values'[p]
            = LenOf(p)' * smoothing_values[p] + 3 * SumOf(p)'
    ELSE smoothing_values'[p] = smoothing_values[p]

(* C19: advancing to a new lesson does not reset a parameter's smoothing    *)
(* value: the call that advances the parameter stores the value             *)
(* _need_increment returned, nothing but update_lessons and __init__        *)
(* changes it afterwards, and the next evaluation, on the new lesson, takes *)
(* it as the prior smoothing: 0.25 * it + 0.75 * mean for a REWARD          *)
(* criterion with smoothing.                                                *)
C19_SmoothingCarriedOver ==
    [][\A p \in DOMAIN dict_settings :
          /\ op' = "update_lessons" => CarriesSmoothing(p)
          /\ op' \notin {"update_lessons", "__init__"}
                => smoothing_values'[p] = smoothing_values[p]]_vars

\* a parameter advances with a smoothing value above 0 to a lesson whose
\* REWARD criterion is smoothed
C19_Witness ==
    /\ Updating /\ ret.error = "none"
    /\ \E p \in Params :
         /\ Smooths(p) /\ Advanced(p)
         /\ smoothing_values[p] > 0
         /\ dict_settings[p].lessons[lesson_num[p] + 1].completion_criteria.measure
                = "REWARD"
         /\ dict_settings[p].lessons[lesson_num[p] + 1].completion_criteria.signal_smoothing

------------------------------------------------------------------------------
(* Progress through a curriculum *)

\* every lesson of p but the last has completion criteria, the last has none
Qualifies(p) ==
    \A l \in 1 .. NumLessons(p) :
        (dict_settings[p].lessons[l].completion_criteria # NoCriteria)
            <=> l < NumLessons(p)

AtFinalLesson(p) == lesson_num[p] = NumLessons(p) - 1

(* C20: when every update_lessons call brings, for every behaviour, a       *)
(* buffer no shorter than min_lesson_length, a progress above the threshold *)
(* and rewards of constant mean above the threshold, each parameter whose   *)
(* lessons all have criteria but the last, which has none, is on its last   *)
(* lesson after finitely many calls and stays there.                        *)
C20_ReachesFinalLesson ==
    <>[](\A p \in Params : Qualifies(p) => AtFinalLesson(p))

====
